---- MODULE Spec2Model ----
(***************************************************************************)
(* imessage-blaster: export of the messages of a local chat.db to a JSON   *)
(* file (src/src/main.rs).  The model follows main(): connect, resolve the *)
(* date range, build the handle map, stream and filter the message rows,   *)
(* serialize, write.                                                       *)
(*                                                                         *)
(* 64-bit quantities do not fit TLC's integers.  A nanosecond count, and   *)
(* an instant, is therefore held the way chrono holds a NaiveDateTime: a   *)
(* day number d, the second of the day s (0..86399) and the nanosecond of  *)
(* the second n (0..999999999), standing for (d*86400 + s)*10^9 + n.  The  *)
(* representation is exact; only the radix differs from the source's i64.  *)
(***************************************************************************)
EXTENDS Integers, Sequences, FiniteSets, TLC

VARIABLES pc, args, start_date, end_date, start_date_ns, end_date_ns,
          handle_map, handles_read, handles_skipped, yielded, messages,
          json_output, file, err, stages

vars == <<pc, args, start_date, end_date, start_date_ns, end_date_ns,
          handle_map, handles_read, handles_skipped, yielded, messages,
          json_output, file, err, stages>>

-----------------------------------------------------------------------------
(* Bounds of the environment                                               *)

\* message rows the message table yields in a run of Spec
MaxRows == 2
\* handle rows the handle table yields
MaxHandles == 1

-----------------------------------------------------------------------------
(* Option<T> and JSON null                                                 *)

None == [some |-> FALSE]
Some(v) == [some |-> TRUE, val |-> v]
Null == "null"

\* serde's rendering of an Option<String> inside json!
OptJson(o) == IF o.some THEN o.val ELSE Null

-----------------------------------------------------------------------------
(* Wide integers: nanosecond counts and instants                           *)

NanosPerSec == 1000000000
SecsPerDay == 86400

Wide(d, s, n) == [d |-> d, s |-> s, n |-> n]

WLt(a, b) ==
    \/ a.d < b.d
    \/ a.d = b.d /\ a.s < b.s
    \/ a.d = b.d /\ a.s = b.s /\ a.n < b.n

WLe(a, b) == a = b \/ WLt(a, b)

\* a + b, carrying nanoseconds into seconds and seconds into days
WAdd(a, b) ==
    LET n0 == a.n + b.n
        cs == IF n0 >= NanosPerSec THEN 1 ELSE 0
        s0 == a.s + b.s + cs
        cd == IF s0 >= SecsPerDay THEN 1 ELSE 0
    IN  Wide(a.d + b.d + cd, s0 - cd * SecsPerDay, n0 - cs * NanosPerSec)

\* a - b, borrowing
WSub(a, b) ==
    LET n0 == a.n - b.n
        bs == IF n0 < 0 THEN 1 ELSE 0
        s0 == a.s - b.s - bs
        bd == IF s0 < 0 THEN 1 ELSE 0
    IN  Wide(a.d - b.d - bd, s0 + bd * SecsPerDay, n0 + bs * NanosPerSec)

\* i64::MAX = 9223372036854775807 ns = 106751 days 23:47:16.854775807
I64Max == Wide(106751, 85636, 854775807)
\* i64::MIN = -9223372036854775808 ns = -106752 days + 00:12:43.145224192
I64Min == Wide(-106752, 763, 145224192)

FitsI64(w) == WLe(I64Min, w) /\ WLe(w, I64Max)

-----------------------------------------------------------------------------
(* The proleptic Gregorian calendar of chrono's NaiveDate                  *)

IsLeap(y) == (y % 4 = 0 /\ y % 100 # 0) \/ y % 400 = 0

DaysInMonth(y, m) ==
    IF m = 2 THEN (IF IsLeap(y) THEN 29 ELSE 28)
    ELSE IF m \in {4, 6, 9, 11} THEN 30 ELSE 31

\* NaiveDate::MIN and NaiveDate::MAX: years -262143 ..  262142
MinYear == -262143
MaxYear == 262142

\* NaiveDate::from_ymd_opt(y, m, d).is_some()
ValidYmd(y, m, d) ==
    /\ y >= MinYear /\ y <= MaxYear
    /\ m >= 1 /\ m <= 12
    /\ d >= 1 /\ d <= DaysInMonth(y, m)

\* days from 1970-01-01 to y-m-d
DaysFromCivil(y, m, d) ==
    LET y1  == IF m <= 2 THEN y - 1 ELSE y
        era == y1 \div 400
        yoe == y1 - era * 400
        mp  == IF m > 2 THEN m - 3 ELSE m + 9
        doy == (153 * mp + 2) \div 5 + d - 1
        doe == yoe * 365 + yoe \div 4 - yoe \div 100 + doy
    IN  era * 146097 + doe - 719468

\* Utc.with_ymd_and_hms(y, m, d, 0, 0, 0): midnight UTC as an instant
Midnight(y, m, d) == Wide(DaysFromCivil(y, m, d), 0, 0)

imessage_epoch == Midnight(2001, 1, 1)

-----------------------------------------------------------------------------
(* NaiveDate::parse_from_str(date_str, "%Y-%m-%d"), on strings held as     *)
(* sequences of characters                                                 *)

Digits == {"0", "1", "2", "3", "4", "5", "6", "7", "8", "9"}

DigitVal(c) ==
    CASE c = "0" -> 0 [] c = "1" -> 1 [] c = "2" -> 2 [] c = "3" -> 3
      [] c = "4" -> 4 [] c = "5" -> 5 [] c = "6" -> 6 [] c = "7" -> 7
      [] c = "8" -> 8 [] c = "9" -> 9

RECURSIVE Text(_)
\* the string a sequence of characters spells
Text(cs) == IF cs = <<>> THEN "" ELSE Head(cs) \o Text(Tail(cs))

RECURSIVE DigitRun(_, _)
\* how many of the first max characters of s are leading digits
DigitRun(s, max) ==
    IF max = 0 \/ s = <<>> THEN 0
    ELSE IF Head(s) \notin Digits THEN 0
    ELSE 1 + DigitRun(Tail(s), max - 1)

RECURSIVE NumVal(_, _)
\* the decimal value of the first k characters of s, continuing from acc
NumVal(s, acc) ==
    IF s = <<>> THEN acc ELSE NumVal(Tail(s), acc * 10 + DigitVal(Head(s)))

ParseOk(rest, val) == [ok |-> TRUE, rest |-> rest, val |-> val]
ParseErr(kind) == [ok |-> FALSE, kind |-> kind]

\* scan::number(s, min, max): between min and max leading digits
ScanNumber(s, min, max) ==
    IF Len(s) < min THEN ParseErr("TooShort")
    ELSE LET k == DigitRun(s, max)
         IN  IF k < min THEN ParseErr("Invalid")
             ELSE ParseOk(SubSeq(s, k + 1, Len(s)), NumVal(SubSeq(s, 1, k), 0))

\* Numeric::Year: an explicit sign lifts the four-digit limit
ScanYear(s) ==
    IF s # <<>> /\ Head(s) = "-"
    THEN LET r == ScanNumber(Tail(s), 1, Len(s))
         IN  IF r.ok THEN ParseOk(r.rest, 0 - r.val) ELSE r
    ELSE IF s # <<>> /\ Head(s) = "+"
    THEN ScanNumber(Tail(s), 1, Len(s))
    ELSE ScanNumber(s, 1, 4)

\* Item::Literal("-")
ScanDash(s) ==
    IF Len(s) < 1 THEN ParseErr("TooShort")
    ELSE IF Head(s) # "-" THEN ParseErr("Invalid")
    ELSE ParseOk(Tail(s), 0)

\* the five items of "%Y-%m-%d", then the end of input, then the calendar
parse_from_str(s) ==
    LET y  == ScanYear(s) IN
    IF ~y.ok THEN y ELSE
    LET d1 == ScanDash(y.rest) IN
    IF ~d1.ok THEN d1 ELSE
    LET m  == ScanNumber(d1.rest, 1, 2) IN
    IF ~m.ok THEN m ELSE
    LET d2 == ScanDash(m.rest) IN
    IF ~d2.ok THEN d2 ELSE
    LET d  == ScanNumber(d2.rest, 1, 2) IN
    IF ~d.ok THEN d ELSE
    IF d.rest # <<>> THEN ParseErr("TooLong") ELSE
    IF ~ValidYmd(y.val, m.val, d.val) THEN ParseErr("OutOfRange")
    ELSE [ok |-> TRUE, y |-> y.val, m |-> m.val, d |-> d.val]

\* impl Display for ParseError
ParseErrorDisplay(kind) ==
    CASE kind = "OutOfRange" -> "input is out of range"
      [] kind = "Invalid"    -> "input contains invalid characters"
      [] kind = "TooShort"   -> "premature end of input"
      [] kind = "TooLong"    -> "trailing input"

\* enum AppError: Table(TableError), Io(io::Error), Args(String); the payload
\* is held as the pieces its text is made of
AppError(kind, msg) == [kind |-> kind, msg |-> msg]
NoError == [kind |-> "none", msg |-> <<>>]

Ok(v) == [ok |-> TRUE, val |-> v]
Err(e) == [ok |-> FALSE, err |-> e]

\* fn parse_date: format!("Invalid date format: {}. Expected YYYY-MM-DD", e)
\* with e the ParseError; a parsed date is taken at midnight UTC
parse_date(date_str) ==
    LET r == parse_from_str(date_str)
    IN  IF r.ok THEN Ok(Midnight(r.y, r.m, r.d))
        ELSE Err(AppError("Args",
                 <<"Invalid date format: ", ParseErrorDisplay(r.kind),
                   ". Expected YYYY-MM-DD">>))

\* TimeDelta::num_nanoseconds(): None when the count leaves i64
num_nanoseconds(delta) == IF FitsI64(delta) THEN Some(delta) ELSE None

unwrap_or(o, dflt) == IF o.some THEN o.val ELSE dflt

Zero == Wide(0, 0, 0)

\* the bug of leaving the overflow check out
EpochOffsetNs_Unchecked(date) == WSub(date, imessage_epoch)

\* (date - imessage_epoch).num_nanoseconds().unwrap_or(0)
EpochOffsetNs(date) == unwrap_or(num_nanoseconds(WSub(date, imessage_epoch)), Zero)

\* Duration::days(k)
Days(k) == Wide(k, 0, 0)

\* the bug of rounding toward zero: seconds before 1970 come out one late
timestamp_TowardZero(t) ==
    IF t.d < 0 /\ t.n > 0 THEN t.d * SecsPerDay + t.s + 1
    ELSE t.d * SecsPerDay + t.s

\* DateTime::timestamp(): whole non-leap seconds since 1970-01-01T00:00:00Z;
\* the nanosecond part of an instant is never negative, so this is a floor
timestamp(t) == t.d * SecsPerDay + t.s

\* DateTime + Duration panics when the sum leaves NaiveDate's range
InDateRange(t) ==
    /\ t.d >= DaysFromCivil(MinYear, 1, 1)
    /\ t.d <= DaysFromCivil(MaxYear, 12, 31)

-----------------------------------------------------------------------------
(* The inputs of a run: the command line, the clock, the two tables        *)

D_2024_03_10 == <<"2", "0", "2", "4", "-", "0", "3", "-", "1", "0">>
D_2024_03_15 == <<"2", "0", "2", "4", "-", "0", "3", "-", "1", "5">>
\* before 1970
D_1960_01_01 == <<"1", "9", "6", "0", "-", "0", "1", "-", "0", "1">>
\* more than i64 nanoseconds after, and before, 2001
D_2400_01_01 == <<"2", "4", "0", "0", "-", "0", "1", "-", "0", "1">>
D_1700_01_01 == <<"1", "7", "0", "0", "-", "0", "1", "-", "0", "1">>
\* malformed: day first, and a thirteenth month
D_15_03_2024 == <<"1", "5", "-", "0", "3", "-", "2", "0", "2", "4">>
D_2024_13_01 == <<"2", "0", "2", "4", "-", "1", "3", "-", "0", "1">>

DateStrings ==
    {D_2024_03_10, D_2024_03_15, D_1960_01_01, D_2400_01_01, D_1700_01_01,
     D_15_03_2024, D_2024_13_01}

\* Option<String> of --start-date and --end-date
DateArgs == {None} \cup {Some(x) : x \in DateStrings}

\* struct Args (the output path is the one file the model holds)
ArgsSet == [start_date : DateArgs, end_date : DateArgs, only_from_me : BOOLEAN]

\* what Utc::now() returns during the run: 2024-03-15T12:00:00.5Z
Clocks == {Wide(DaysFromCivil(2024, 3, 15), 43200, 500000000)}

\* rows of the handle table, as query_map hands them over: a handle, a row
\* that could not be read, a row that could not be decoded
HandleResults ==
    {Ok([rowid |-> 1, id |-> "+15559876543"]), Err("row"), Err("decode")}

\* msg.date values, nanoseconds since 2001: the two midnights the date
\* arguments name, one nanosecond past the later, half a second before 1970,
\* the epoch itself, and the ends of i64
Ns_2024_03_10 == WSub(Midnight(2024, 3, 10), imessage_epoch)
Ns_2024_03_15 == WSub(Midnight(2024, 3, 15), imessage_epoch)
Ns_2024_03_15_1 == WAdd(Ns_2024_03_15, Wide(0, 0, 1))
Ns_Before1970 == WSub(Wide(-1, 86399, 500000000), imessage_epoch)

AllDates ==
    {Ns_2024_03_10, Ns_2024_03_15, Ns_2024_03_15_1, Ns_Before1970, Zero,
     I64Min, I64Max}

FewDates == {Ns_2024_03_10, Ns_2024_03_15}

Owner == "+15551234567"

\* struct Message of the library, the fields main() reads; decodable is
\* whether generate_text will succeed on it
Message(rowid, date, is_from_me, handle_id, dest, decodable) ==
    [rowid |-> rowid, date |-> date, is_from_me |-> is_from_me,
     handle_id |-> handle_id, destination_caller_id |-> dest,
     decodable |-> decodable, text |-> None]

\* every shape of message row
AllShapes(rowid) ==
    {Ok(Message(rowid, d, f, h, c, t)) :
        d \in AllDates, f \in BOOLEAN, h \in {None, Some(1), Some(2)},
        c \in {None, Some(Owner)}, t \in BOOLEAN}
    \cup {Err("row"), Err("decode")}

\* the shapes used when a table of several rows is streamed
FewShapes(rowid) ==
    {Ok(Message(rowid, d, f, Some(1), Some(Owner), TRUE)) :
        d \in FewDates, f \in BOOLEAN}
    \cup {Ok(Message(rowid, Ns_2024_03_10, FALSE, None, Some(Owner), TRUE)),
          Ok(Message(rowid, Ns_2024_03_10, TRUE, Some(1), Some(Owner), FALSE)),
          Err("row")}

-----------------------------------------------------------------------------
(* The loop body of main(), lines 129-168                                  *)

\* the bug of treating a bad message row as the handle loop treats one
RowOutcome_SkipsBadRows(r) ==
    IF ~r.ok THEN "skip"
    ELSE IF ~r.val.decodable THEN "skip"
    ELSE "process"

\* Message::extract(message_result)?, then generate_text: what becomes of
\* the row
RowOutcome(r) ==
    IF ~r.ok THEN "abort"
    ELSE IF ~r.val.decodable THEN "skip"
    ELSE "process"

\* the text generate_text leaves in msg.text
generate_text(msg) == [msg EXCEPT !.text = Some("hello")]

\* imessage_epoch + Duration::nanoseconds(msg.date)
MessageDate(msg) == WAdd(imessage_epoch, msg.date)

\* the bug of an exclusive upper bound
Qualifies_ExclusiveEnd(msg, start_ns, end_ns, only_from_me) ==
    /\ WLe(start_ns, msg.date)
    /\ WLt(msg.date, end_ns)
    /\ (~only_from_me \/ msg.is_from_me)

\* the condition of line 136
Qualifies(msg, start_ns, end_ns, only_from_me) ==
    /\ WLe(start_ns, msg.date)
    /\ WLe(msg.date, end_ns)
    /\ (~only_from_me \/ msg.is_from_me)

\* the bug of a default in place of None
Lookup_OrDefault(map, handle_id) ==
    IF handle_id.some /\ handle_id.val \in DOMAIN map
    THEN Some(map[handle_id.val]) ELSE Some("")

\* msg.handle_id.and_then(|id| handle_map.get(&id).cloned())
Lookup(map, handle_id) ==
    IF handle_id.some /\ handle_id.val \in DOMAIN map
    THEN Some(map[handle_id.val]) ELSE None

from_number(msg, map) ==
    IF msg.is_from_me THEN msg.destination_caller_id
    ELSE Lookup(map, msg.handle_id)

\* the bug of not swapping the recipient with the direction
to_number_NotSwapped(msg, map) == Lookup(map, msg.handle_id)

to_number(msg, map) ==
    IF msg.is_from_me THEN Lookup(map, msg.handle_id)
    ELSE msg.destination_caller_id

\* MessageData and the json! object made of it
message_json(msg, message_date, from, to) ==
    [id |-> msg.rowid, date |-> timestamp(message_date),
     text |-> OptJson(msg.text), from |-> OptJson(from), to |-> OptJson(to),
     from_me |-> msg.is_from_me]

\* the bug of inserting at the front
Push_Front(list, rec) == <<rec>> \o list

\* messages.push(message_json)
Push(list, rec) == Append(list, rec)

\* handle_map.insert(handle.rowid, handle.id)
Insert(map, k, v) == [x \in DOMAIN map \cup {k} |-> IF x = k THEN v ELSE map[x]]

EmptyMap == [x \in {} |-> ""]

-----------------------------------------------------------------------------
(* The output file                                                         *)

Untouched == [state |-> "untouched", content |-> <<>>]
Created == [state |-> "created", content |-> <<>>]
Partial == [state |-> "partial", content |-> <<>>]
Written(json) == [state |-> "written", content |-> json]

-----------------------------------------------------------------------------
(* main()                                                                  *)

Init ==
    /\ pc = "connect"
    /\ args \in ArgsSet
    /\ start_date = None
    /\ end_date = None
    /\ start_date_ns = None
    /\ end_date_ns = None
    /\ handle_map = EmptyMap
    /\ handles_read = 0
    /\ handles_skipped = 0
    /\ yielded = <<>>
    /\ messages = <<>>
    /\ json_output = None
    /\ file = Untouched
    /\ err = NoError
    /\ stages = <<>>

\* the ? operator on an Err: main returns it and nothing else runs
Fail(e) == pc' = "failed" /\ err' = e

\* the bug of creating the output file before the pipeline has run
Connect_OpensOutput ==
    /\ pc = "connect"
    /\ stages' = Append(stages, "Connect")
    /\ file' = Created
    /\ \/ pc' = "start_date" /\ err' = err
       \/ Fail(AppError("Table", <<"CannotConnect">>))
    /\ UNCHANGED <<args, start_date, end_date, start_date_ns, end_date_ns,
                   handle_map, handles_read, handles_skipped, yielded,
                   messages, json_output>>

\* lines 87-88: default_db_path(), get_connection(&db_path)?
Connect ==
    /\ pc = "connect"
    /\ stages' = Append(stages, "Connect")
    /\ \/ pc' = "start_date" /\ err' = err
       \/ Fail(AppError("Table", <<"CannotConnect">>))
    /\ UNCHANGED <<args, start_date, end_date, start_date_ns, end_date_ns,
                   handle_map, handles_read, handles_skipped, yielded,
                   messages, json_output, file>>

\* lines 93-96: the start date, or seven days before now
ResolveStart ==
    /\ pc = "start_date"
    /\ stages' = Append(stages, "ResolveArgs")
    /\ IF args.start_date.some
       THEN LET r == parse_date(args.start_date.val)
            IN  /\ IF r.ok
                   THEN pc' = "end_date" /\ start_date' = Some(r.val) /\ err' = err
                   ELSE Fail(r.err) /\ start_date' = start_date
       ELSE \E t \in Clocks :
                /\ start_date' = Some(WSub(t, Days(7)))
                /\ pc' = "end_date"
                /\ err' = err
    /\ UNCHANGED <<args, end_date, start_date_ns, end_date_ns, handle_map,
                   handles_read, handles_skipped, yielded, messages,
                   json_output, file>>

\* lines 98-101: the end date, or now
ResolveEnd ==
    /\ pc = "end_date"
    /\ IF args.end_date.some
       THEN LET r == parse_date(args.end_date.val)
            IN  /\ IF r.ok
                   THEN pc' = "convert" /\ end_date' = Some(r.val) /\ err' = err
                   ELSE Fail(r.err) /\ end_date' = end_date
       ELSE \E t \in Clocks :
                /\ end_date' = Some(t)
                /\ pc' = "convert"
                /\ err' = err
    /\ UNCHANGED <<args, start_date, start_date_ns, end_date_ns, handle_map,
                   handles_read, handles_skipped, yielded, messages,
                   json_output, file, stages>>

\* lines 103-104
ConvertBounds ==
    /\ pc = "convert"
    /\ start_date_ns' = Some(EpochOffsetNs(start_date.val))
    /\ end_date_ns' = Some(EpochOffsetNs(end_date.val))
    /\ pc' = "handles_query"
    /\ UNCHANGED <<args, start_date, end_date, handle_map, handles_read,
                   handles_skipped, yielded, messages, json_output, file, err,
                   stages>>

\* lines 107-111: Handle::get(&db)?, query_map(..)?
PrepareHandles ==
    /\ pc = "handles_query"
    /\ stages' = Append(stages, "BuildHandleMap")
    /\ \/ pc' = "handles" /\ err' = err
       \/ Fail(AppError("Table", <<"Handle">>))
    /\ UNCHANGED <<args, start_date, end_date, start_date_ns, end_date_ns,
                   handle_map, handles_read, handles_skipped, yielded,
                   messages, json_output, file>>

\* lines 113-119: one turn of the handle loop
HandleRow ==
    /\ pc = "handles"
    /\ handles_read < MaxHandles
    /\ \E r \in HandleResults :
        /\ handles_read' = handles_read + 1
        /\ IF r.ok
           THEN /\ handle_map' = Insert(handle_map, r.val.rowid, r.val.id)
                /\ handles_skipped' = handles_skipped
           ELSE /\ handle_map' = handle_map
                /\ handles_skipped' = handles_skipped + 1
    /\ UNCHANGED <<pc, args, start_date, end_date, start_date_ns, end_date_ns,
                   yielded, messages, json_output, file, err, stages>>

\* lines 121-126: the handle rows are exhausted; Message::get(&db)?,
\* query_map(..)?
PrepareMessages ==
    /\ pc = "handles"
    /\ stages' = Append(stages, "StreamFilter")
    /\ \/ pc' = "stream" /\ err' = err
       \/ Fail(AppError("Table", <<"Messages">>))
    /\ UNCHANGED <<args, start_date, end_date, start_date_ns, end_date_ns,
                   handle_map, handles_read, handles_skipped, yielded,
                   messages, json_output, file>>

\* lines 128-170: one turn of the message loop on a row of one of `shapes`,
\* while the table has rows left (at most `limit`)
MessageRow(shapes, limit) ==
    /\ pc = "stream"
    /\ Len(yielded) < limit
    /\ \E r \in shapes :
        /\ yielded' = Append(yielded, r)
        /\ CASE RowOutcome(r) = "abort" ->
                  /\ Fail(AppError("Table", <<"Messages", "row">>))
                  /\ messages' = messages
             [] RowOutcome(r) = "skip" ->
                  UNCHANGED <<pc, err, messages>>
             [] RowOutcome(r) = "process" ->
                  LET msg == generate_text(r.val)
                      message_date == MessageDate(msg)
                  IN  IF ~InDateRange(message_date)
                      THEN pc' = "panicked" /\ UNCHANGED <<err, messages>>
                      ELSE /\ UNCHANGED <<pc, err>>
                           /\ messages' =
                                IF Qualifies(msg, start_date_ns.val,
                                             end_date_ns.val, args.only_from_me)
                                THEN Push(messages,
                                          message_json(msg, message_date,
                                              from_number(msg, handle_map),
                                              to_number(msg, handle_map)))
                                ELSE messages
    /\ UNCHANGED <<args, start_date, end_date, start_date_ns, end_date_ns,
                   handle_map, handles_read, handles_skipped, json_output,
                   file, stages>>

\* line 172: the message rows are exhausted; json!(messages)
Serialize ==
    /\ pc = "stream"
    /\ json_output' = Some(messages)
    /\ stages' = Append(stages, "Serialize")
    /\ pc' = "create"
    /\ UNCHANGED <<args, start_date, end_date, start_date_ns, end_date_ns,
                   handle_map, handles_read, handles_skipped, yielded,
                   messages, file, err>>

\* line 173: File::create(&args.output_file)? truncates or creates
CreateFile ==
    /\ pc = "create"
    /\ stages' = Append(stages, "Write")
    /\ \/ pc' = "write" /\ file' = Created /\ err' = err
       \/ Fail(AppError("Io", <<"create">>)) /\ file' = file
    /\ UNCHANGED <<args, start_date, end_date, start_date_ns, end_date_ns,
                   handle_map, handles_read, handles_skipped, yielded,
                   messages, json_output>>

\* lines 174-176: write_all, then Ok(())
WriteAll ==
    /\ pc = "write"
    /\ \/ pc' = "done" /\ file' = Written(json_output.val) /\ err' = err
       \/ Fail(AppError("Io", <<"write_all">>)) /\ file' = Partial
    /\ UNCHANGED <<args, start_date, end_date, start_date_ns, end_date_ns,
                   handle_map, handles_read, handles_skipped, yielded,
                   messages, json_output, stages>>

\* a run over tables of up to MaxRows message rows
Next ==
    \/ Connect
    \/ ResolveStart
    \/ ResolveEnd
    \/ ConvertBounds
    \/ PrepareHandles
    \/ HandleRow
    \/ PrepareMessages
    \/ MessageRow(FewShapes(Len(yielded) + 1), MaxRows)
    \/ Serialize
    \/ CreateFile
    \/ WriteAll

Spec == Init /\ [][Next]_vars

\* a run over message tables of at most one row, of every shape
NextAnyRow ==
    \/ Connect
    \/ ResolveStart
    \/ ResolveEnd
    \/ ConvertBounds
    \/ PrepareHandles
    \/ HandleRow
    \/ PrepareMessages
    \/ MessageRow(AllShapes(Len(yielded) + 1), 1)
    \/ Serialize
    \/ CreateFile
    \/ WriteAll

SpecAnyRow == Init /\ [][NextAnyRow]_vars

-----------------------------------------------------------------------------
(* Vocabulary of the properties                                            *)

\* 2001-01-01T00:00:00Z in Unix seconds
UnixOf2001 == 978307200

Rows == 1 .. Len(yielded)
Records == 1 .. Len(messages)

\* the rows that were read as messages, and the records made of row i
GoodRows == {i \in Rows : yielded[i].ok}
RecordsOf(i) == {j \in Records : messages[j].id = i}

BoundsSet == start_date_ns.some /\ end_date_ns.some

InWindow(d) == WLe(start_date_ns.val, d) /\ WLe(d, end_date_ns.val)

\* the three conditions of the filter, on row i
ShouldEmit(i) ==
    /\ InWindow(yielded[i].val.date)
    /\ (~args.only_from_me \/ yielded[i].val.is_from_me)
    /\ yielded[i].val.decodable

\* the handle map's value for a message's handle_id, null when there is none
Resolved(msg) ==
    IF msg.handle_id.some /\ msg.handle_id.val \in DOMAIN handle_map
    THEN handle_map[msg.handle_id.val] ELSE Null

Unresolvable(msg) ==
    ~msg.handle_id.some \/ msg.handle_id.val \notin DOMAIN handle_map

Malformed(o) == o.some /\ o.val \in {D_15_03_2024, D_2024_13_01}

\* the run got as far as the write stage
ReachedWrite == json_output.some

-----------------------------------------------------------------------------
\* C1: in a run that reaches the write stage, a message row has a record in
\* the output iff its date lies in [start_ns, end_ns] (both ends included),
\* it passes the only-from-me filter and its text decoded; every record is
\* the record of a message row.
C1_OutputIffQualifies ==
    ReachedWrite =>
        /\ \A i \in Rows : yielded[i].ok /\ (RecordsOf(i) # {} <=> ShouldEmit(i))
        /\ \A j \in Records : messages[j].id \in GoodRows
        /\ json_output.val = messages

\* a finished run whose one row, dated exactly end_ns and not before
\* start_ns, is in the file
C1_Witness ==
    /\ pc = "done"
    /\ Len(yielded) = 1
    /\ yielded[1].val.date = end_date_ns.val
    /\ WLt(start_date_ns.val, end_date_ns.val)
    /\ Len(file.content) = 1

\* C2: direction rule.  A record of an owner-sent message has from = the
\* destination caller id and to = the handle map's value for handle_id; a
\* record of a received message has them the other way round; from_me is
\* the message's flag.  Two records of the same (destination, handle) pair
\* and opposite flags have from and to swapped.
C2_Direction ==
    /\ \A j \in Records :
        LET msg == yielded[messages[j].id].val
            rec == messages[j]
        IN  /\ rec.from_me = msg.is_from_me
            /\ msg.is_from_me =>
                 /\ rec.from = OptJson(msg.destination_caller_id)
                 /\ rec.to = Resolved(msg)
            /\ ~msg.is_from_me =>
                 /\ rec.from = Resolved(msg)
                 /\ rec.to = OptJson(msg.destination_caller_id)
    /\ \A j, k \in Records :
        LET a == yielded[messages[j].id].val
            b == yielded[messages[k].id].val
        IN  (/\ a.destination_caller_id = b.destination_caller_id
             /\ a.handle_id = b.handle_id
             /\ a.is_from_me # b.is_from_me)
            => /\ messages[j].from = messages[k].to
               /\ messages[j].to = messages[k].from

\* the example of the specification: sent and received, same pair
C2_Witness ==
    /\ Len(messages) = 2
    /\ messages[1] = [id |-> 1, date |-> UnixOf2001 + 8469 * SecsPerDay,
                      text |-> "hello", from |-> "+15551234567",
                      to |-> "+15559876543", from_me |-> TRUE]
    /\ messages[2].from = "+15559876543"
    /\ messages[2].to = "+15551234567"
    /\ ~messages[2].from_me

\* C3: a qualifying message whose handle_id is missing, or is no key of the
\* handle map, still has its record, with null at the endpoint the handle
\* would give and the other fields as for any message; the run does not
\* fail on it.
C3_UnresolvedIsNull ==
    /\ pc # "panicked"
    /\ \A i \in GoodRows :
        LET msg == yielded[i].val
        IN  (BoundsSet /\ ShouldEmit(i) /\ Unresolvable(msg)) =>
              /\ \E j \in Records :
                    messages[j] =
                      [id |-> i,
                       date |-> UnixOf2001 + msg.date.d * SecsPerDay + msg.date.s,
                       text |-> "hello",
                       from |-> IF msg.is_from_me
                                THEN OptJson(msg.destination_caller_id) ELSE Null,
                       to |-> IF msg.is_from_me
                              THEN Null ELSE OptJson(msg.destination_caller_id),
                       from_me |-> msg.is_from_me]
              /\ pc = "failed" =>
                    \/ err.kind = "Io"
                    \/ i < Len(yielded) /\ ~yielded[Len(yielded)].ok

\* a finished run: the only handle row was skipped, the first message names
\* that handle, the second has none; both are in the file, the first with
\* a null recipient
C3_Witness ==
    /\ pc = "done"
    /\ handles_skipped = 1 /\ handles_read = 1
    /\ Len(file.content) = 2
    /\ yielded[1].val.handle_id = Some(1) /\ yielded[1].val.is_from_me
    /\ file.content[1].to = Null /\ file.content[1].from = Owner
    /\ yielded[2].val.handle_id = None
    /\ file.content[2].from = Null

\* C4: a malformed start or end date ends the run in an error with the
\* output file untouched; whenever a stage before the write stage fails
\* (date parse, connection, handle query, message query, message row), the
\* file stays untouched and nothing more runs, whatever had qualified.
C4_Inv ==
    /\ (Malformed(args.start_date) \/ Malformed(args.end_date)) =>
          /\ file = Untouched
          /\ pc \in {"connect", "start_date", "end_date", "failed"}
    /\ err.kind \in {"Args", "Table"} => file = Untouched /\ pc = "failed"
    /\ file # Untouched =>
          stages = <<"Connect", "ResolveArgs", "BuildHandleMap",
                     "StreamFilter", "Serialize", "Write">>

C4_NoWriteAfterFailure ==
    [] C4_Inv /\ [][pc = "failed" => UNCHANGED vars]_vars

\* a message row could not be read after a record had been made
C4_Witness ==
    /\ pc = "failed"
    /\ err = AppError("Table", <<"Messages", "row">>)
    /\ Len(messages) = 1
    /\ file = Untouched

\* C5: the stages run in the order Resolve Args (the date strings
\* included), Connect, Build Handle Map, Stream & Filter, Serialize, Write;
\* a run given a malformed date never attempts to connect and reports an
\* Argument error.
C5_ArgsBeforeConnect ==
    /\ \E n \in 0 .. 6 :
          stages = SubSeq(<<"ResolveArgs", "Connect", "BuildHandleMap",
                            "StreamFilter", "Serialize", "Write">>, 1, n)
    /\ (Malformed(args.start_date) \/ Malformed(args.end_date)) =>
          /\ \A k \in 1 .. Len(stages) : stages[k] # "Connect"
          /\ pc = "failed" => err.kind = "Args"

\* C6: the Argument error of a date string that does not parse carries
\* that string; a missing date is no error.
C6_ErrorCarriesInput ==
    /\ err.kind = "Args" =>
          \E d \in {args.start_date, args.end_date} :
              /\ d.some
              /\ \E k \in 1 .. Len(err.msg) : err.msg[k] = Text(d.val)
    /\ (args.start_date = None /\ args.end_date = None) => err.kind # "Args"

\* C7: every step of the message loop leaves the output list as it was or
\* appends one record to it; a row has at most one record; the records
\* stand in the order their rows were yielded, whatever their dates.
C7_Inv ==
    /\ \A i \in GoodRows :
          Cardinality(RecordsOf(i)) = IF ShouldEmit(i) THEN 1 ELSE 0
    /\ \A j, k \in Records : j < k => messages[j].id < messages[k].id

C7_Step ==
    \/ messages' = messages
    \/ /\ Len(messages') = Len(messages) + 1
       /\ SubSeq(messages', 1, Len(messages)) = messages
       /\ Len(yielded') = Len(yielded) + 1
       /\ messages'[Len(messages')].id = Len(yielded')

C7_AppendOnly == [] C7_Inv /\ [][C7_Step]_vars

\* the later date comes first in the file, as it did in the table
C7_Witness ==
    /\ pc = "done"
    /\ Len(file.content) = 2
    /\ file.content[1].id = 1 /\ file.content[2].id = 2
    /\ file.content[1].date > file.content[2].date

\* C8 as the specification words it: a text that does not decode is the
\* only failure that is dropped; any other, a bad handle row included, ends
\* the run.
C8_OnlyTextDecodeRecovered ==
    /\ handles_skipped > 0 => pc = "failed"
    /\ \A i \in Rows : ~yielded[i].ok => pc = "failed"

\* C8, amended: a text that does not decode and a handle row that cannot
\* be read or decoded are the failures that are dropped, silently, the run
\* going on; a message row that cannot be read or decoded ends the run
\* with a Table error, as every other failure does.
C8_Inv ==
    /\ \A i \in Rows :
          ~yielded[i].ok =>
              /\ pc = "failed" /\ err.kind = "Table"
              /\ i = Len(yielded)
    /\ \A i \in GoodRows : ~yielded[i].val.decodable => RecordsOf(i) = {}
    /\ pc = "failed" <=> err # NoError

C8_Step ==
    /\ handles_skipped' > handles_skipped =>
          /\ pc' = pc /\ err' = err /\ handle_map' = handle_map
    /\ (/\ Len(yielded') > Len(yielded)
        /\ yielded'[Len(yielded')].ok
        /\ ~yielded'[Len(yielded')].val.decodable) =>
          /\ pc' = pc /\ err' = err /\ messages' = messages

C8_DropAndContinue == [] C8_Inv /\ [][C8_Step]_vars

\* a finished run that skipped a handle row and dropped its first message
C8_Witness ==
    /\ pc = "done"
    /\ handles_skipped = 1
    /\ Len(yielded) = 2
    /\ ~yielded[1].val.decodable
    /\ Len(file.content) = 1 /\ file.content[1].id = 2

\* C9: each bound is the exact nanosecond count from 2001-01-01T00:00:00Z
\* to the instant when that count fits i64, and 0 when it does not; no
\* order of the bounds is required, and a range with start_ns > end_ns
\* gives an empty array, not an error.
C9_Bound(instant, ns) ==
    LET diff == Wide(instant.d - UnixOf2001 \div SecsPerDay, instant.s, instant.n)
    IN  ns = IF WLe(I64Min, diff) /\ WLe(diff, I64Max) THEN diff ELSE Zero

C9_Expected(arg, dflt) ==
    CASE arg = None -> dflt
      [] arg = Some(D_2024_03_10) -> Wide(8469, 0, 0)
      [] arg = Some(D_2024_03_15) -> Wide(8474, 0, 0)
      [] arg = Some(D_1960_01_01) -> Wide(-14976, 0, 0)
      [] arg = Some(D_2400_01_01) -> Zero
      [] arg = Some(D_1700_01_01) -> Zero

C9_RangeBounds ==
    /\ pc # "panicked"
    /\ BoundsSet =>
          /\ C9_Bound(start_date.val, start_date_ns.val)
          /\ C9_Bound(end_date.val, end_date_ns.val)
          /\ start_date_ns.val =
                C9_Expected(args.start_date, Wide(8467, 43200, 500000000))
          /\ end_date_ns.val =
                C9_Expected(args.end_date, Wide(8474, 43200, 500000000))
          /\ WLt(end_date_ns.val, start_date_ns.val) =>
                /\ messages = <<>>
                /\ err.kind # "Args"
                /\ pc = "done" => file = Written(<<>>)

\* --start-date 2024-03-15 --end-date 2400-01-01: the end bound is 0, and
\* the message of 2024-03-15 the table yielded is not in the file
C9_Witness ==
    /\ pc = "done"
    /\ args.start_date = Some(D_2024_03_15)
    /\ args.end_date = Some(D_2400_01_01)
    /\ end_date_ns = Some(Zero)
    /\ Len(yielded) >= 1
    /\ yielded[1].val.date = Ns_2024_03_15 /\ yielded[1].val.decodable
    /\ file = Written(<<>>)

\* C10 as the specification words it: date is the Unix time of the instant
\* with its sub-second part dropped toward zero.
C10_TruncatesTowardZero ==
    \A j \in Records :
        LET ns == yielded[messages[j].id].val.date
            floor == UnixOf2001 + ns.d * SecsPerDay + ns.s
        IN  messages[j].date = IF floor < 0 /\ ns.n > 0 THEN floor + 1 ELSE floor

\* C10, amended: date is the Unix time of the instant rounded down to a
\* whole second (toward minus infinity), 978307200 + floor(date_ns / 10^9),
\* for every date_ns, before 1970 too; making the instant never aborts.
C10_FloorsToSecond ==
    /\ pc # "panicked"
    /\ \A j \in Records :
        LET ns == yielded[messages[j].id].val.date
        IN  messages[j].date = UnixOf2001 + (ns.d * SecsPerDay + ns.s)

\* half a second before 1970 is second -1
C10_Witness ==
    /\ Len(messages) = 1
    /\ yielded[1].val.date = Ns_Before1970
    /\ messages[1].date = -1

====
